---- MODULE Spec2Model ----
(***************************************************************************)
(* Recursive model index (package rmi): NewRMI / buildRecursive / GetIndex *)
(* of rmi.go and the linear regression of regression.go.                   *)
(*                                                                         *)
(* big.Float values are modelled as rationals num/den in lowest terms.     *)
(* Every big.Float result of the package is rounded to at most 64 bits of  *)
(* mantissa; a rational whose denominator is a power of two and whose      *)
(* numerator fits the model's integers is represented exactly, any other   *)
(* result is rounded and is marked inexact (ex = FALSE), the model keeping *)
(* the unrounded rational as its approximation.  Truncating an inexact     *)
(* value that approximates an integer may land on either side of it.       *)
(* den = 0 encodes an infinity (num = 1 or -1) and NaN stands for the      *)
(* big.ErrNaN panic of the operation that would have produced it.          *)
(***************************************************************************)
EXTENDS Integers, Sequences, FiniteSets, TLC

\* ---- bounds of the model ----
MaxLen == 4
MaxKey == 3
MaxWidth == 3
MaxDepth == 3
MaxQuery == 4

VARIABLES
    values,      \* NewRMI argument: the key array
    width,       \* NewRMI argument / rmi.width
    depth,       \* NewRMI argument / rmi.depth
    pc,          \* "start", "build", "ready", "query", "returned", "error", "panic"
    err,         \* NewRMI's error result is non-nil
    nodes,       \* rmi.nodes: nodes[layer+1][position+1]; <<>> before allocation
    maxIndex,    \* rmi.maxIndex
    root,        \* rmi.root
    stack,       \* call stack of buildRecursive, top frame last
    writes,      \* ghost: number of stores into each slot of nodes
    panicIn,     \* "" or the exported function in which a runtime panic was raised
    panicMsg,    \* "" or the kind of runtime panic raised
    key,         \* GetIndex argument
    currentNode, \* GetIndex local
    nextLayer,   \* GetIndex local
    widthF,      \* GetIndex local `width` (big.Float)
    path,        \* ghost: position of the node selected at each layer so far
    evals,       \* ghost: layers whose model has been evaluated, in order
    result       \* GetIndex return value

vars == <<values, width, depth, pc, err, nodes, maxIndex, root, stack, writes,
          panicIn, panicMsg, key, currentNode, nextLayer, widthF, path, evals, result>>

buildVars == <<nodes, maxIndex, root, stack, writes>>
queryVars == <<key, currentNode, nextLayer, widthF, path, evals, result>>

\* ---------------------------------------------------------------------
\* big.Float arithmetic
\* ---------------------------------------------------------------------
Abs(x) == IF x < 0 THEN -x ELSE x

Sign(x) == IF x < 0 THEN -1 ELSE IF x > 0 THEN 1 ELSE 0

RECURSIVE GCD(_, _)
GCD(a, b) == IF b = 0 THEN a ELSE GCD(b, a % b)

RECURSIVE IsPow2(_)
IsPow2(d) == d = 1 \/ (d > 1 /\ d % 2 = 0 /\ IsPow2(d \div 2))

RECURSIVE Pow(_, _)
Pow(b, e) == IF e = 0 THEN 1 ELSE b * Pow(b, e - 1)

NaN == [num |-> 0, den |-> 0, ex |-> TRUE]

Inf(s) == [num |-> s, den |-> 0, ex |-> TRUE]

IsNaN(x) == x.den = 0 /\ x.num = 0

IsInf(x) == x.den = 0 /\ x.num # 0

IsZero(x) == x.den # 0 /\ x.num = 0

\* n/d with d > 0, in lowest terms
Norm(n, d, e) ==
    LET g == GCD(Abs(n), d)
    IN  [num |-> Sign(n) * (Abs(n) \div g), den |-> d \div g, ex |-> e]

\* rounding to the precision of the receiver
Round(q) == IF IsPow2(q.den) THEN q ELSE [q EXCEPT !.ex = FALSE]

SetInt(i) == [num |-> i, den |-> 1, ex |-> TRUE]

Zero == SetInt(0)

FNeg(x) == [x EXCEPT !.num = -x.num]

FAdd(x, y) ==
    IF IsNaN(x) \/ IsNaN(y) THEN NaN
    ELSE IF IsInf(x) /\ IsInf(y) THEN (IF x.num = y.num THEN x ELSE NaN)
    ELSE IF IsInf(x) THEN x
    ELSE IF IsInf(y) THEN y
    ELSE Round(Norm(x.num * y.den + y.num * x.den, x.den * y.den, x.ex /\ y.ex))

FSub(x, y) == FAdd(x, FNeg(y))

FMul(x, y) ==
    IF IsNaN(x) \/ IsNaN(y) THEN NaN
    ELSE IF IsInf(x) \/ IsInf(y)
         THEN (IF IsZero(x) \/ IsZero(y) THEN NaN ELSE Inf(Sign(x.num) * Sign(y.num)))
    ELSE Round(Norm(x.num * y.num, x.den * y.den, x.ex /\ y.ex))

FQuo(x, y) ==
    IF IsNaN(x) \/ IsNaN(y) THEN NaN
    ELSE IF (IsZero(x) /\ IsZero(y)) \/ (IsInf(x) /\ IsInf(y)) THEN NaN
    ELSE IF IsInf(x) THEN Inf(x.num * (IF y.num < 0 THEN -1 ELSE 1))
    ELSE IF IsInf(y) THEN Zero
    ELSE IF IsZero(y) THEN Inf(Sign(x.num))
    ELSE Round(Norm(x.num * y.den * Sign(y.num), x.den * Abs(y.num), x.ex /\ y.ex))

\* value saturating Int64() on an infinity; above every index of the model
Int64Sat == 2147483647

Trunc(x) == Sign(x.num) * (Abs(x.num) \div x.den)

\* the values x.Int64() can return (truncation toward zero)
Int64Set(x) ==
    IF IsInf(x) THEN {x.num * Int64Sat}
    ELSE IF x.ex \/ x.den # 1 \/ x.num = 0 THEN {Trunc(x)}
    ELSE {x.num, x.num - Sign(x.num)}

\* ---------------------------------------------------------------------
\* regression.go
\* ---------------------------------------------------------------------
RECURSIVE SumInts(_, _)
SumInts(s, acc) ==
    IF s = <<>> THEN acc ELSE SumInts(Tail(s), FAdd(acc, SetInt(Head(s))))

mean(vs) == FQuo(SumInts(vs, Zero), SetInt(Len(vs)))

RECURSIVE covarianceFrom(_, _, _, _, _)
covarianceFrom(x, y, meanX, meanY, covar) ==
    IF x = <<>> THEN covar
    ELSE LET termX == FSub(SetInt(Head(x)), meanX)
             termY == FSub(SetInt(Head(y)), meanY)
             termXY == FMul(termX, termY)
         IN  covarianceFrom(Tail(x), Tail(y), meanX, meanY, FAdd(covar, termXY))

covariance(x, y, meanX, meanY) == covarianceFrom(x, y, meanX, meanY, Zero)

RECURSIVE varianceFrom(_, _, _)
varianceFrom(vs, meanValue, acc) ==
    IF vs = <<>> THEN acc
    ELSE LET abs == FSub(SetInt(Head(vs)), meanValue)
         IN  varianceFrom(Tail(vs), meanValue, FAdd(acc, FMul(abs, abs)))

variance(vs, meanValue) == varianceFrom(vs, meanValue, Zero)

\* <<b0, b1, w>>; a NaN component means the call panicked
coefficients(predVars, target) ==
    LET meanX == mean(predVars)
        meanY == mean(target)
        b1 == FQuo(covariance(predVars, target, meanX, meanY), variance(predVars, meanX))
        b0 == FSub(meanY, FMul(meanX, b1))
        w  == FQuo(FNeg(b0), b1)
    IN  <<b0, b1, w>>

\* ---------------------------------------------------------------------
\* rmi.go: NewRMI and buildRecursive
\* ---------------------------------------------------------------------
Max(a, b) == IF a > b THEN a ELSE b

Min(a, b) == IF a < b THEN a ELSE b

\* Go slice expression s[lo:hi]
Slice(s, lo, hi) == SubSeq(s, lo + 1, hi)

\* variant of IsSorted: equal neighbours are taken as out of order
IsSortedStrict(vs) == \A i \in 2..Len(vs) : vs[i - 1] < vs[i]

\* sort.SliceIsSorted with less(i, j) = values[i] < values[j]
IsSorted(vs) == \A i \in 2..Len(vs) : ~(vs[i] < vs[i - 1])

NilNode == [set |-> FALSE, m |-> Zero, b |-> Zero, w |-> Zero]

\* make([][]*Node, depth) with layer sizes 1, width, width^2, ...
AllocNodes(w, d) == [i \in 1..d |-> [p \in 1..Pow(w, i - 1) |-> NilNode]]

AllocWrites(w, d) == [i \in 1..d |-> [p \in 1..Pow(w, i - 1) |-> 0]]

\* indices[i] = i
RankSeq(n) == [i \in 1..n |-> i - 1]

Frame(vals, inds, capV, capI, offset, currentDepth, locationInLayer) ==
    [values |-> vals, indices |-> inds, capValues |-> capV, capIndices |-> capI,
     offset |-> offset, currentDepth |-> currentDepth,
     locationInLayer |-> locationInLayer,
     phase |-> "enter", rangeSize |-> 0, leftIndex |-> 0, rightIndex |-> 0, i |-> 0,
     \* ghost fields
     layer |-> currentDepth, offsetIn |-> offset, carved |-> <<>>]

Top == stack[Len(stack)]

SetTop(f) == [stack EXCEPT ![Len(stack)] = f]

Init ==
    /\ values \in UNION {[1..n -> 0..MaxKey] : n \in 0..MaxLen}
    /\ width \in 1..MaxWidth
    /\ depth \in 1..MaxDepth
    /\ pc = "start"
    /\ err = FALSE
    /\ nodes = <<>>
    /\ maxIndex = 0
    /\ root = NilNode
    /\ stack = <<>>
    /\ writes = <<>>
    /\ panicIn = ""
    /\ panicMsg = ""
    /\ key = 0
    /\ currentNode = NilNode
    /\ nextLayer = 0
    /\ widthF = Zero
    /\ path = <<>>
    /\ evals = <<>>
    /\ result = 0

\* NewRMI up to the call of buildRecursive
NewRMI ==
    /\ pc = "start"
    /\ IF ~IsSorted(values)
       THEN /\ err' = TRUE
            /\ pc' = "error"
            /\ UNCHANGED buildVars
       ELSE /\ nodes' = AllocNodes(width, depth)
            /\ writes' = AllocWrites(width, depth)
            /\ maxIndex' = Len(values) - 1
            /\ stack' = <<Frame(values, RankSeq(Len(values)), Len(values), Len(values), 0, 0, 0)>>
            /\ pc' = "build"
            /\ UNCHANGED <<err, root>>
    /\ UNCHANGED <<values, width, depth, panicIn, panicMsg>>
    /\ UNCHANGED queryVars

\* the model fitted at a node: <<b, m, w>>
NodeModel(vals, inds, offset) ==
    IF Len(inds) >= 2 THEN coefficients(vals, inds)
    ELSE <<SetInt(offset), Zero, Zero>>

\* buildRecursive from its entry to the test of the leaf layer
BuildNode ==
    /\ pc = "build"
    /\ Top.phase = "enter"
    /\ LET f == Top
           c == NodeModel(f.values, f.indices, f.offset)
           l == f.currentDepth + 1
           p == f.locationInLayer + 1
           panics == IsNaN(c[1]) \/ IsNaN(c[2]) \/ IsNaN(c[3])
       IN  /\ writes' = [writes EXCEPT ![l][p] = @ + 1]
           /\ IF panics
              THEN /\ nodes' = [nodes EXCEPT ![l][p] = [NilNode EXCEPT !.set = TRUE]]
                   /\ pc' = "panic"
                   /\ panicIn' = "NewRMI"
                   /\ panicMsg' = "division of zero by zero or infinity by infinity"
                   /\ UNCHANGED stack
              ELSE /\ nodes' = [nodes EXCEPT ![l][p] =
                                   [set |-> TRUE, m |-> c[2], b |-> c[1], w |-> c[3]]]
                   /\ UNCHANGED <<pc, panicIn, panicMsg>>
                   /\ IF f.currentDepth # depth - 1
                      THEN LET rs == Len(f.values) \div width
                           IN  stack' = SetTop([f EXCEPT !.currentDepth = @ + 1,
                                                         !.rangeSize = rs,
                                                         !.leftIndex = 0,
                                                         !.rightIndex = Max(0, rs),
                                                         !.i = 0,
                                                         !.phase = "loop"])
                      ELSE stack' = SetTop([f EXCEPT !.phase = "done"])
    /\ UNCHANGED <<values, width, depth, err, maxIndex, root>>
    /\ UNCHANGED queryVars

\* the bounds check at the head of the loop body: <<leftIndex, rightIndex>>
ClampBounds(leftIndex, rightIndex, n) ==
    IF rightIndex <= 0 THEN <<0, 0>>
    ELSE IF rightIndex >= n THEN <<leftIndex, n - 1>>
    ELSE <<leftIndex, rightIndex>>

\* variant of NextRight: the running right bound is not accumulated
NextRightNoAccumulate(rightIndex, rangeSize, n) == Max(0, Min(rangeSize, n) - 1)

\* rightIndex for the next iteration
NextRight(rightIndex, rangeSize, n) == Max(0, Min(rightIndex + rangeSize, n) - 1)

\* variant of ChildLocation: the parent's position is not scaled by the width
ChildLocationUnscaled(locationInLayer, i) == locationInLayer + i

\* position of child i of the node at locationInLayer
ChildLocation(locationInLayer, i) == locationInLayer * width + i

\* variant of ChildOffset: an empty slice resets the offset instead of carrying it
ChildOffsetReset(offset, subIndices) ==
    IF subIndices # <<>> THEN subIndices[1] ELSE 0

\* the offset handed to a child: updated when its slice of indices is not empty
ChildOffset(offset, subIndices) ==
    IF subIndices # <<>> THEN subIndices[1] ELSE offset

\* one iteration of the child loop up to the recursive call
BuildChild ==
    /\ pc = "build"
    /\ Top.phase = "loop"
    /\ Top.i < width
    /\ LET f == Top
           lr == ClampBounds(f.leftIndex, f.rightIndex, Len(f.indices))
           l == lr[1]
           r == lr[2]
           sliceI == l # r
           okI == sliceI => (0 <= l /\ l <= r /\ r <= f.capIndices)
           okV == 0 <= l /\ l <= r /\ r <= f.capValues
       IN  IF ~(okI /\ okV)
           THEN /\ pc' = "panic"
                /\ panicIn' = "NewRMI"
                /\ panicMsg' = "slice bounds out of range"
                /\ stack' = SetTop([f EXCEPT !.leftIndex = l, !.rightIndex = r])
           ELSE LET subIndices == IF sliceI THEN Slice(f.indices, l, r) ELSE <<>>
                    off == ChildOffset(f.offset, subIndices)
                    child == Frame(Slice(f.values, l, r), subIndices,
                                   f.capValues - l,
                                   IF sliceI THEN f.capIndices - l ELSE 0,
                                   off, f.currentDepth,
                                   ChildLocation(f.locationInLayer, f.i))
                IN  /\ stack' = Append(SetTop([f EXCEPT !.leftIndex = l,
                                                        !.rightIndex = r,
                                                        !.offset = off,
                                                        !.carved = Append(@, <<l, r>>),
                                                        !.phase = "ret"]),
                                       child)
                    /\ UNCHANGED <<pc, panicIn, panicMsg>>
    /\ UNCHANGED <<values, width, depth, err, nodes, maxIndex, root, writes>>
    /\ UNCHANGED queryVars

\* the end of the loop body, after the recursive call has returned
BuildAdvance ==
    /\ pc = "build"
    /\ Top.phase = "ret"
    /\ LET f == Top
       IN  stack' = SetTop([f EXCEPT !.leftIndex = f.rightIndex,
                                     !.rightIndex = NextRight(f.rightIndex, f.rangeSize,
                                                              Len(f.indices)),
                                     !.i = @ + 1,
                                     !.phase = "loop"])
    /\ UNCHANGED <<values, width, depth, pc, err, nodes, maxIndex, root, writes,
                   panicIn, panicMsg>>
    /\ UNCHANGED queryVars

\* return of buildRecursive; the outermost return completes NewRMI
BuildReturn ==
    /\ pc = "build"
    /\ Top.phase = "done" \/ (Top.phase = "loop" /\ Top.i >= width)
    /\ stack' = SubSeq(stack, 1, Len(stack) - 1)
    /\ IF Len(stack) = 1
       THEN /\ root' = nodes[1][1]
            /\ pc' = "ready"
       ELSE UNCHANGED <<root, pc>>
    /\ UNCHANGED <<values, width, depth, err, nodes, maxIndex, writes, panicIn, panicMsg>>
    /\ UNCHANGED queryVars

\* ---------------------------------------------------------------------
\* rmi.go: GetIndex
\* ---------------------------------------------------------------------
QueryKeys == (0 - MaxQuery)..MaxQuery

\* entry of GetIndex up to the head of the loop
GetIndex ==
    /\ pc = "ready"
    /\ \E k \in QueryKeys : key' = k
    /\ currentNode' = root
    /\ nextLayer' = 1
    /\ widthF' = SetInt(width)
    /\ path' = <<0>>
    /\ evals' = <<>>
    /\ pc' = "query"
    /\ UNCHANGED <<values, width, depth, err, panicIn, panicMsg, result>>
    /\ UNCHANGED buildVars

\* m*value + b at the current node
Predict(node, value) == FAdd(FMul(node.m, SetInt(value)), node.b)

\* variant of ClampLeaf: the lower clamp is missing
ClampLeafNoLower(nextIndex, maxIdx) ==
    IF nextIndex > maxIdx THEN maxIdx ELSE nextIndex

\* the clamp of the leaf prediction into the index range
ClampLeaf(nextIndex, maxIdx) ==
    IF nextIndex > maxIdx THEN maxIdx
    ELSE IF nextIndex < 0 THEN 0
    ELSE nextIndex

\* variant of ClampRoute: the upper test is off by one
ClampRouteOffByOne(nextIndex, layerLen) ==
    IF nextIndex < 0 THEN 0
    ELSE IF nextIndex > layerLen THEN layerLen - 1
    ELSE nextIndex

\* the clamp of the routing prediction into the next layer, of length layerLen
ClampRoute(nextIndex, layerLen) ==
    IF nextIndex < 0 THEN 0
    ELSE IF nextIndex >= layerLen THEN layerLen - 1
    ELSE nextIndex

\* loop body at the leaf layer: return the clamped prediction
GetIndexLeaf ==
    /\ pc = "query"
    /\ nextLayer = depth
    /\ LET res == Predict(currentNode, key)
       IN  IF IsNaN(res)
           THEN /\ pc' = "panic"
                /\ panicIn' = "GetIndex"
                /\ panicMsg' = "division of zero by zero or infinity by infinity"
                /\ UNCHANGED result
           ELSE /\ \E nextIndex \in Int64Set(res) : result' = ClampLeaf(nextIndex, maxIndex)
                /\ pc' = "returned"
                /\ UNCHANGED <<panicIn, panicMsg>>
    /\ evals' = Append(evals, nextLayer - 1)
    /\ UNCHANGED <<values, width, depth, err, key, currentNode, nextLayer, widthF, path>>
    /\ UNCHANGED buildVars

\* loop body at a non-leaf layer: select the node of the next layer
GetIndexRoute ==
    /\ pc = "query"
    /\ nextLayer # depth
    /\ LET res == FMul(FQuo(Predict(currentNode, key), SetInt(maxIndex)), widthF)
           layerLen == Len(nodes[nextLayer + 1])
       IN  IF IsNaN(res)
           THEN /\ pc' = "panic"
                /\ panicIn' = "GetIndex"
                /\ panicMsg' = "division of zero by zero or infinity by infinity"
                /\ UNCHANGED <<currentNode, nextLayer, widthF, path>>
           ELSE \E n64 \in Int64Set(res) :
                    LET nextIndex == ClampRoute(n64, layerLen)
                    IN  IF nextIndex < 0 \/ nextIndex >= layerLen
                        THEN /\ pc' = "panic"
                             /\ panicIn' = "GetIndex"
                             /\ panicMsg' = "index out of range"
                             /\ UNCHANGED <<currentNode, nextLayer, widthF, path>>
                        ELSE /\ currentNode' = nodes[nextLayer + 1][nextIndex + 1]
                             /\ path' = Append(path, nextIndex)
                             /\ nextLayer' = nextLayer + 1
                             /\ widthF' = FMul(widthF, SetInt(width))
                             /\ UNCHANGED <<pc, panicIn, panicMsg>>
    /\ evals' = Append(evals, nextLayer - 1)
    /\ UNCHANGED <<values, width, depth, err, key, result>>
    /\ UNCHANGED buildVars

Next ==
    \/ NewRMI
    \/ BuildNode
    \/ BuildChild
    \/ BuildAdvance
    \/ BuildReturn
    \/ GetIndex
    \/ GetIndexLeaf
    \/ GetIndexRoute

Spec == Init /\ [][Next]_vars

\* ---------------------------------------------------------------------
\* properties
\* ---------------------------------------------------------------------
\* helpers of the properties
TreeReturned == pc \in {"ready", "query", "returned"} \/ (pc = "panic" /\ panicIn = "GetIndex")

QueryEnded == pc = "returned" \/ (pc = "panic" /\ panicIn = "GetIndex")

HasDescent(vs) == \E i \in 1..(Len(vs) - 1) : vs[i] > vs[i + 1]

AllEqual(vs) == \A i \in 1..Len(vs) : vs[i] = vs[1]

NodeOf(f) == nodes[f.layer + 1][f.locationInLayer + 1]

Children(p) == (p * width)..(p * width + width - 1)

\* the offset a frame's most recently carved child is to receive, read off the
\* sub-ranges its parent frame has carved so far
ExpectedOffset(parent) ==
    LET c == parent.carved
        n == Len(c)
        nonEmpty == {j \in 1..(n - 1) : c[j][1] # c[j][2]}
    IN  IF c[n][1] # c[n][2] THEN parent.indices[c[n][1] + 1]
        ELSE IF nonEmpty = {} THEN parent.offsetIn
        ELSE LET j == CHOOSE x \in nonEmpty : \A y \in nonEmpty : y <= x
             IN  parent.indices[c[j][1] + 1]

\* C1: GetIndex never fails: on every tree NewRMI returns and for every query key
\* it completes without a runtime panic.
C1_GetIndexNeverFails == ~(pc = "panic" /\ panicIn = "GetIndex")

\* C2 (as claimed): for every accepted key array, the empty one included, the value
\* GetIndex returns lies in [0, maxIndex].
C2_BoundsTotality == pc = "returned" => (0 <= result /\ result <= maxIndex)

\* C2 (amended): the value GetIndex returns lies in [0, maxIndex] when the key array
\* has at least one key, and is -1 (= maxIndex) when the key array is empty.
C2_BoundsNonEmpty ==
    pc = "returned" =>
        /\ maxIndex = Len(values) - 1
        /\ IF Len(values) >= 1 THEN 0 <= result /\ result <= maxIndex ELSE result = -1

C2_Witness ==
    /\ pc = "returned"
    /\ Len(values) >= 2
    /\ depth >= 2
    /\ key < 0
    /\ result = 0
    /\ \E n64 \in Int64Set(Predict(currentNode, key)) : n64 < 0

\* C3: NewRMI returns an error and a nil tree, before anything is allocated or built,
\* exactly when some adjacent pair of keys is out of order; a non-decreasing array
\* (equal neighbours allowed) does not get the error.
C3_SortednessPrecondition ==
    pc # "start" =>
        /\ err <=> HasDescent(values)
        /\ err => (pc = "error" /\ nodes = <<>> /\ writes = <<>> /\ stack = <<>>
                   /\ root = NilNode)
        /\ ~err => pc # "error"

C3_Witness ==
    /\ pc = "error"
    /\ err
    /\ Len(values) = 3
    /\ values[1] = values[2]
    /\ values[2] > values[3]

\* C4: NewRMI completes on every non-decreasing key array; a node whose sub-range
\* holds two or more identical keys gets the degenerate model (slope 0, intercept =
\* offset) and the zero variance is not propagated as a division by zero.
C4_BuildFinishesOnDuplicates ==
    /\ ~(pc = "panic" /\ panicIn = "NewRMI")
    /\ \A k \in 1..Len(stack) :
           LET f == stack[k]
           IN  (f.phase # "enter" /\ Len(f.values) >= 2 /\ AllEqual(f.values)) =>
                   (NodeOf(f).m = Zero /\ NodeOf(f).b = SetInt(f.offsetIn))

\* C5: a node built from fewer than 2 samples is built without a division and gets
\* slope 0, zero-crossing 0 and intercept = its offset, which is 0 at the root, the
\* rank of the sub-range's first key when the sub-range is not empty, and else the
\* first rank of the last non-empty sub-range carved before it under the same parent
\* (the parent's own offset when there is none); its model evaluates to that offset
\* for every query key.
C5_DegenerateRange ==
    /\ (pc = "panic" /\ panicIn = "NewRMI") => Len(Top.values) >= 2
    /\ \A k \in 1..Len(stack) :
           LET f == stack[k]
           IN  /\ k = 1 => f.offsetIn = 0
               /\ k > 1 => f.offsetIn = ExpectedOffset(stack[k - 1])
               /\ (f.phase # "enter" /\ Len(f.values) < 2) =>
                      /\ NodeOf(f) = [set |-> TRUE, m |-> Zero, w |-> Zero,
                                      b |-> SetInt(f.offsetIn)]
                      /\ \A q \in QueryKeys : Predict(NodeOf(f), q) = SetInt(f.offsetIn)

C5_Witness ==
    /\ pc = "build"
    /\ Len(stack) = 3
    /\ Top.phase = "done"
    /\ Top.values = <<>>
    /\ Top.offsetIn = 2
    /\ stack[2].offsetIn = 2
    /\ Len(stack[2].carved) = 2
    /\ NodeOf(Top).b = SetInt(2)

\* C6: the returned tree has depth layers, layer i has width^i slots, every slot
\* holds a node and was written exactly once, and child c of the node at (layer, p)
\* is stored at (layer + 1, p*width + c).
C6_ShapeInvariant ==
    /\ TreeReturned =>
           /\ Len(nodes) = depth
           /\ \A l \in 1..depth :
                  /\ Len(nodes[l]) = Pow(width, l - 1)
                  /\ \A p \in 1..Len(nodes[l]) : nodes[l][p].set /\ writes[l][p] = 1
    /\ \A l \in 1..Len(writes) : \A p \in 1..Len(writes[l]) :
           /\ writes[l][p] <= 1
           /\ nodes[l][p].set <=> writes[l][p] = 1
    /\ \A k \in 1..Len(stack) :
           LET f == stack[k]
           IN  /\ f.phase # "enter" => NodeOf(f).set
               /\ k = 1 => (f.layer = 0 /\ f.locationInLayer = 0)
               /\ k > 1 => /\ f.layer = stack[k - 1].layer + 1
                           /\ f.locationInLayer =
                                  stack[k - 1].locationInLayer * width + stack[k - 1].i
                           /\ stack[k - 1].i \in 0..(width - 1)

C6_Witness ==
    /\ pc = "ready"
    /\ depth = 3
    /\ width = 3
    /\ Len(values) = 4
    /\ Len(nodes[3]) = 9

\* C7: a query ends only after evaluating exactly depth node models, one at each of
\* the layers 0, 1, ..., depth-1 in that order, whatever the key and the key array.
C7_QueryTouchesDepthNodes == QueryEnded => evals = [i \in 1..depth |-> i - 1]

\* C8: at a non-leaf node with n samples the width sub-ranges handed to the children
\* are contiguous, start at 0 and together cover [0, n).
C8_PartitionCoverage ==
    \A k \in 1..Len(stack) :
        LET f == stack[k]
            c == f.carved
        IN  (f.phase = "loop" /\ f.i >= width) =>
                /\ Len(c) = width
                /\ c[1][1] = 0
                /\ \A j \in 1..(width - 1) : c[j][2] = c[j + 1][1]
                /\ c[width][2] = Len(f.values)

\* C9 (as claimed): the node selected at the next layer is one of the width children
\* of the current node.
C9_RoutesToOwnChild ==
    \A i \in 1..(Len(path) - 1) : path[i + 1] \in Children(path[i])

\* C9 (amended): the node selected at the next layer is the node stored at a valid
\* slot of that layer, 0 <= q <= width^(i+1) - 1, and selecting it never indexes out
\* of range; it need not be a child of the current node.
C9_RoutesWithinLayer ==
    /\ ~(pc = "panic" /\ panicMsg = "index out of range")
    /\ \A i \in 1..Len(path) : 0 <= path[i] /\ path[i] <= Pow(width, i - 1) - 1
    /\ pc = "query" =>
           /\ Len(path) = nextLayer
           /\ currentNode = nodes[nextLayer][path[nextLayer] + 1]

C9_Witness ==
    /\ pc = "query"
    /\ Len(path) = 3
    /\ path[3] \notin Children(path[2])
    /\ path[2] \in Children(path[1])

\* C10: at every slicing in buildRecursive 0 <= leftIndex <= rightIndex <= n, the
\* values and indices handed to a recursive call have equal length, and no slice
\* expression is out of range.
C10_SliceBounds ==
    /\ ~(pc = "panic" /\ panicMsg = "slice bounds out of range")
    /\ \A k \in 1..Len(stack) :
           LET f == stack[k]
           IN  /\ Len(f.values) = Len(f.indices)
               /\ f.phase = "ret" =>
                      /\ 0 <= f.leftIndex
                      /\ f.leftIndex <= f.rightIndex
                      /\ f.rightIndex <= Len(f.values)
                      /\ Len(stack) > k =>
                             Len(stack[k + 1].values) = f.rightIndex - f.leftIndex

C10_Witness ==
    /\ pc = "build"
    /\ Len(stack) >= 2
    /\ stack[1].phase = "ret"
    /\ stack[1].i = 1
    /\ stack[1].leftIndex = 2
    /\ stack[1].rightIndex = 3
    /\ Len(stack[1].values) = 4
====
